---- MODULE Spec2Model ----
(***************************************************************************)
(* Melody_converter: VISA connection scope (Function_gen.py), the function *)
(* generator controller (Function_gen.py and the hard-only variant of      *)
(* melody_converter.py) and the melody session that drives it.             *)
(*                                                                         *)
(* Every method is an operator over a call context `c`: the fields of the  *)
(* controller object, the instrument as commanded so far, the commands     *)
(* this call has written, and the exception in flight ("none" while the    *)
(* call is still running). A primitive does nothing once an exception is   *)
(* in flight, which is how a Python exception skips the rest of a method.  *)
(***************************************************************************)
EXTENDS Integers, Sequences, FiniteSets, TLC

VARIABLES
    instrument,   \* VISA_Connection.instrument: "None" or "Resource"
    sessionOpen,  \* the transport session behind self.instrument is open
    rmOpen,       \* the pyvisa resource manager of the connection is open
    scope,        \* "new" | "in" | "out": position of the `with` scope
    ctl,          \* controller the client holds: "none" | "fg" | "mc"
    freq,         \* Function_Gen.freq (NoValue while unset)
    output,       \* Function_Gen.output: "unset" | "True" | "False"
    volt,         \* Function_Gen.volt
    width,        \* Function_Gen.width
    offset,       \* Function_Gen.offset
    relay,        \* last OUTP1 command the instrument accepted: "unknown" | "ON" | "OFF"
    devFreq,      \* last SOUR1:FREQ value the instrument accepted
    last,         \* record of the call that just ended
    prev,         \* what is remembered of the calls before it
    pc,           \* position in play_file_on_function_gen ("api": not running)
    melody,       \* the lines of the melody file
    idx,          \* the line the loop reads next
    wire,         \* the commands the instrument accepted during the session
    pending,      \* the exception propagating out of the session, or "none"
    devs,         \* the device objects the client holds, in creation order
    dcall         \* record of the scan_visa or device_factory call that just ended

vars == <<instrument, sessionOpen, rmOpen, scope, ctl, freq, output, volt,
          width, offset, relay, devFreq, last, prev, pc, melody, idx, wire,
          pending, devs, dcall>>

----------------------------------------------------------------------------
(* Values *)

\* an attribute that has not been assigned
NoValue == 0 - 1

\* "1" of `str(self.freq) if output else "1"`
IdleFreq == 1

\* self.freq: int = 1000
InitFreq == 1000

Freqs == {440, 880}
Durations == {0, 1}
Vpps == {23}
Offsets == {11}
PulseWidths == {186}

\* answers of the instrument to SOUR1:FREQ?, in tenths of a hertz
\* ("1.0005E+03", "4.407E+02")
Responses == {10005, 4407}

Cmd(k, v) == [k |-> k, v |-> v]
OutpOn == Cmd("OUTP1", 1)
OutpOff == Cmd("OUTP1", 0)
FreqCmd(f) == Cmd("SOUR1:FREQ", f)
VoltCmd(v) == Cmd("VOLT", v)
OffsCmd(v) == Cmd("VOLT:OFFS", v)
WidtCmd(v) == Cmd("FUNC:PULS:WIDT", v)
FreqQuery == Cmd("SOUR1:FREQ?", 0)

BoolStr(b) == IF b THEN "True" ELSE "False"

\* int(float(answer)): truncation of the decimal answer
IntOfFloat(tenths) == tenths \div 10

----------------------------------------------------------------------------
(* Call context *)

Ctx(failAt) ==
    [freq |-> freq, output |-> output, volt |-> volt, width |-> width,
     offset |-> offset, relay |-> relay, devFreq |-> devFreq,
     log |-> <<>>, tcalls |-> 0, slept |-> 0, waited |-> FALSE, waitAt |-> 0,
     ans |-> NoValue, exc |-> "none", failAt |-> failAt]

\* the instrument acting on a command it accepted
Accept(c, cmd) ==
    [c EXCEPT !.log = Append(@, cmd),
              !.relay = IF cmd.k = "OUTP1" THEN (IF cmd.v = 1 THEN "ON" ELSE "OFF") ELSE @,
              !.devFreq = IF cmd.k = "SOUR1:FREQ" THEN cmd.v ELSE @]

\* self.instrument.write(msg) / self.instrument.query(msg): one transport call,
\* which raises when the session is closed or the I/O fails
Transport(c, cmd) ==
    LET n == c.tcalls + 1 IN
    IF ~sessionOpen THEN [c EXCEPT !.tcalls = n, !.exc = "InvalidSession"]
    ELSE IF n = c.failAt THEN [c EXCEPT !.tcalls = n, !.exc = "VisaIOError"]
    ELSE Accept([c EXCEPT !.tcalls = n], cmd)

\* VISA_Connection.write
VisaWrite(c, cmd) ==
    IF c.exc # "none" THEN c
    ELSE IF instrument = "None" THEN [c EXCEPT !.exc = "ValueError"]
    ELSE Transport(c, cmd)

\* VISA_Connection.query
VisaQuery(c, cmd, resp) ==
    IF c.exc # "none" THEN c
    ELSE IF instrument = "None" THEN [c EXCEPT !.exc = "ValueError"]
    ELSE LET d == Transport(c, cmd) IN
         IF d.exc # "none" THEN d ELSE [d EXCEPT !.ans = resp]

\* an attribute assignment, skipped when an exception is in flight
SetFreq(c, f) == IF c.exc # "none" THEN c ELSE [c EXCEPT !.freq = f]
SetOutput(c, b) == IF c.exc # "none" THEN c ELSE [c EXCEPT !.output = BoolStr(b)]
SetVolt(c, v) == IF c.exc # "none" THEN c ELSE [c EXCEPT !.volt = v]
SetWidth(c, v) == IF c.exc # "none" THEN c ELSE [c EXCEPT !.width = v]
SetOffset(c, v) == IF c.exc # "none" THEN c ELSE [c EXCEPT !.offset = v]

\* sleep(duration); waitAt is the number of commands written before it
Sleep(c, d) ==
    IF c.exc # "none" THEN c
    ELSE [c EXCEPT !.slept = @ + d, !.waited = TRUE, !.waitAt = Len(c.log)]

----------------------------------------------------------------------------
(* Function_Gen of Function_gen.py *)

configure_vpp(c, vpp) == VisaWrite(c, VoltCmd(vpp))

configure_offset(c, off) == VisaWrite(c, OffsCmd(off))

configure_pulse_width(c, pw) == VisaWrite(c, WidtCmd(pw))

configure_freq(c, f) == SetFreq(VisaWrite(c, FreqCmd(f)), f)

\* set_outp with the idle value recorded as the configured frequency
set_outp_records_idle(c, out, soft) ==
    IF soft
    THEN LET outp_f_msg == IF out THEN c.freq ELSE IdleFreq IN
         SetOutput(VisaWrite(SetFreq(VisaWrite(c, FreqCmd(outp_f_msg)), outp_f_msg),
                             OutpOn), out)
    ELSE SetOutput(VisaWrite(c, IF out THEN OutpOn ELSE OutpOff), out)

\* set_outp whose soft path writes the frequency only
set_outp_freq_only(c, out, soft) ==
    IF soft
    THEN LET outp_f_msg == IF out THEN c.freq ELSE IdleFreq IN
         SetOutput(VisaWrite(c, FreqCmd(outp_f_msg)), out)
    ELSE SetOutput(VisaWrite(c, IF out THEN OutpOn ELSE OutpOff), out)

\* set_outp recording the requested state before it writes
set_outp_flag_first(c, out, soft) ==
    LET c0 == SetOutput(c, out) IN
    IF soft
    THEN LET outp_f_msg == IF out THEN c.freq ELSE IdleFreq IN
         VisaWrite(VisaWrite(c0, FreqCmd(outp_f_msg)), OutpOn)
    ELSE VisaWrite(c0, IF out THEN OutpOn ELSE OutpOff)

\* set_outp whose soft-off opens the relay
set_outp_soft_relay_off(c, out, soft) ==
    IF soft
    THEN LET outp_f_msg == IF out THEN c.freq ELSE IdleFreq IN
         SetOutput(VisaWrite(VisaWrite(c, FreqCmd(outp_f_msg)),
                             IF out THEN OutpOn ELSE OutpOff), out)
    ELSE SetOutput(VisaWrite(c, IF out THEN OutpOn ELSE OutpOff), out)

set_outp(c, out, soft) ==
    IF soft
    THEN LET outp_f_msg == IF out THEN c.freq ELSE IdleFreq IN
         SetOutput(VisaWrite(VisaWrite(c, FreqCmd(outp_f_msg)), OutpOn), out)
    ELSE SetOutput(VisaWrite(c, IF out THEN OutpOn ELSE OutpOff), out)

stop(c) == set_outp(c, FALSE, FALSE)

\* play_tone writing the frequency without recording it
play_tone_unrecorded(c, f, duration, stopAfter, wait, soft_stop) ==
    LET c1 == VisaWrite(c, FreqCmd(f))
        c2 == set_outp(c1, TRUE, TRUE)
    IN  IF wait
        THEN LET c3 == Sleep(c2, duration) IN
             IF stopAfter THEN set_outp(c3, FALSE, soft_stop) ELSE c3
        ELSE c2

\* play_tone that stops after the tone whether or not it waited
play_tone_stops_unwaited(c, f, duration, stopAfter, wait, soft_stop) ==
    LET c1 == configure_freq(c, f)
        c2 == set_outp(c1, TRUE, TRUE)
        c3 == IF wait THEN Sleep(c2, duration) ELSE c2
    IN  IF stopAfter THEN set_outp(c3, FALSE, soft_stop) ELSE c3

\* play_tone that stops the output before it waits
play_tone_stops_before_wait(c, f, duration, stopAfter, wait, soft_stop) ==
    LET c1 == configure_freq(c, f)
        c2 == set_outp(c1, TRUE, TRUE)
    IN  IF wait
        THEN LET c3 == IF stopAfter THEN set_outp(c2, FALSE, soft_stop) ELSE c2 IN
             Sleep(c3, duration)
        ELSE c2

play_tone(c, f, duration, stopAfter, wait, soft_stop) ==
    LET c1 == configure_freq(c, f)
        c2 == set_outp(c1, TRUE, TRUE)
    IN  IF wait
        THEN LET c3 == Sleep(c2, duration) IN
             IF stopAfter THEN set_outp(c3, FALSE, soft_stop) ELSE c3
        ELSE c2

\* the constructor switching the output off on the soft path
FgInit_soft_off(c, vpp, off, pw, resp) ==
    LET c1 == set_outp(SetFreq(c, InitFreq), FALSE, TRUE)
        c2 == configure_freq(SetFreq(c1, InitFreq), InitFreq)
        c3 == configure_vpp(SetVolt(c2, vpp), vpp)
        c4 == configure_pulse_width(SetWidth(c3, pw), pw)
        c5 == configure_offset(SetOffset(c4, off), off)
        c6 == VisaQuery(c5, FreqQuery, resp)
    IN  IF c6.exc # "none" THEN c6 ELSE SetFreq(c6, IntOfFloat(c6.ans))

\* the constructor configuring the frequency after the other parameters
FgInit_freq_last(c, vpp, off, pw, resp) ==
    LET c1 == set_outp(c, FALSE, FALSE)
        c3 == configure_vpp(SetVolt(c1, vpp), vpp)
        c4 == configure_pulse_width(SetWidth(c3, pw), pw)
        c5 == configure_offset(SetOffset(c4, off), off)
        c2 == configure_freq(SetFreq(c5, InitFreq), InitFreq)
        c6 == VisaQuery(c2, FreqQuery, resp)
    IN  IF c6.exc # "none" THEN c6 ELSE SetFreq(c6, IntOfFloat(c6.ans))

\* the constructor reading the frequency back without keeping the answer
FgInit_answer_dropped(c, vpp, off, pw, resp) ==
    LET c1 == set_outp(c, FALSE, FALSE)
        c2 == configure_freq(SetFreq(c1, InitFreq), InitFreq)
        c3 == configure_vpp(SetVolt(c2, vpp), vpp)
        c4 == configure_pulse_width(SetWidth(c3, pw), pw)
        c5 == configure_offset(SetOffset(c4, off), off)
    IN  VisaQuery(c5, FreqQuery, resp)

FgInit(c, vpp, off, pw, resp) ==
    LET c1 == set_outp(c, FALSE, FALSE)
        c2 == configure_freq(SetFreq(c1, InitFreq), InitFreq)
        c3 == configure_vpp(SetVolt(c2, vpp), vpp)
        c4 == configure_pulse_width(SetWidth(c3, pw), pw)
        c5 == configure_offset(SetOffset(c4, off), off)
        c6 == VisaQuery(c5, FreqQuery, resp)
    IN  IF c6.exc # "none" THEN c6 ELSE SetFreq(c6, IntOfFloat(c6.ans))

----------------------------------------------------------------------------
(* Function_Gen of melody_converter.py: hard output switching only *)

mc_set_outp(c, out) ==
    SetOutput(VisaWrite(c, IF out THEN OutpOn ELSE OutpOff), out)

\* mc_play_tone that stops after every tone it waited for
mc_play_tone_always_stops(c, f, duration, stopAfter, wait) ==
    LET c1 == VisaWrite(c, FreqCmd(f))
        c2 == mc_set_outp(c1, TRUE)
    IN  IF wait THEN mc_set_outp(Sleep(c2, duration), FALSE) ELSE c2

mc_play_tone(c, f, duration, stopAfter, wait) ==
    LET c1 == VisaWrite(c, FreqCmd(f))
        c2 == mc_set_outp(c1, TRUE)
    IN  IF wait
        THEN LET c3 == Sleep(c2, duration) IN
             IF stopAfter THEN mc_set_outp(c3, FALSE) ELSE c3
        ELSE c2

McInit(c) == mc_set_outp(SetOutput(c, FALSE), FALSE)

----------------------------------------------------------------------------
(* VISA_Connection scope *)

Conn == [instrument |-> instrument, sessionOpen |-> sessionOpen, rmOpen |-> rmOpen,
         closeInst |-> "norun", closeRm |-> "norun", acquired |-> FALSE,
         exc |-> "none"]

\* VISA_Connection.__exit__: closeInst / closeRm are the outcomes of the two
\* close calls, should they be made ("ok" or the exception raised)
visa_exit(k, closeInst, closeRm) ==
    LET instTried == k.instrument # "None"
        instRaised == instTried /\ closeInst # "ok"
    IN  [k EXCEPT
           !.sessionOpen = IF instTried /\ ~instRaised THEN FALSE ELSE @,
           !.rmOpen = IF ~instRaised /\ closeRm = "ok" THEN FALSE ELSE @,
           !.closeInst = IF ~instTried THEN "skipped"
                         ELSE IF instRaised THEN "raised" ELSE "closed",
           !.closeRm = IF instRaised THEN "notreached"
                       ELSE IF closeRm = "ok" THEN "closed" ELSE "raised"]

\* VISA_Connection.__enter__: openRes / idnRes are the outcomes of
\* open_resource and of the *IDN? query ("ok" or the exception raised)
visa_enter(k, openRes, idnRes, closeInst, closeRm) ==
    IF ~k.rmOpen \/ openRes # "ok"
    THEN [visa_exit(k, closeInst, closeRm) EXCEPT
            !.exc = IF ~k.rmOpen THEN "InvalidSession" ELSE openRes]
    ELSE LET k1 == [k EXCEPT !.instrument = "Resource", !.sessionOpen = TRUE,
                             !.acquired = TRUE]
         IN  IF idnRes # "ok"
             THEN [visa_exit(k1, closeInst, closeRm) EXCEPT !.exc = idnRes]
             ELSE k1

----------------------------------------------------------------------------
(* Call records *)

NoArgs == [f |-> NoValue, d |-> 0, stop |-> FALSE, wait |-> FALSE,
           soft |-> FALSE, out |-> FALSE, cmd |-> ""]

NoCall == [op |-> "none", a |-> NoArgs, res |-> "ok", log |-> <<>>, tcalls |-> 0,
           slept |-> 0, waited |-> FALSE, waitAt |-> 0, ans |-> NoValue,
           preFreq |-> NoValue, preRelay |-> "unknown", preOutput |-> "unset",
           closeInst |-> "norun", closeRm |-> "norun",
           acquired |-> FALSE]

\* the arguments of playTone(440, 0.0, stop=true, wait=true), soft_stop defaulted
ScenarioTone == [NoArgs EXCEPT !.f = 440, !.d = 0, !.stop = TRUE, !.wait = TRUE,
                               !.soft = TRUE]

NoTrail == [softOffFrom |-> NoValue, script |-> "none"]

\* What is remembered once call r, made after trail p, is no longer the last
\* call: softOffFrom is the frequency tracked before r when r was a soft-off
\* that returned; script tells whether r was a construction that returned or
\* the scenario tone played right after one.
Trail(p, r) ==
    [softOffFrom |-> IF r.op = "_set_outp" /\ r.res = "ok" /\ r.a.soft /\ ~r.a.out
                     THEN r.preFreq ELSE NoValue,
     script |-> IF r.op = "FgInit" /\ r.res = "ok" THEN "constructed"
                ELSE IF /\ p.script = "constructed"
                        /\ r.op = "play_tone" /\ r.res = "ok" /\ r.a = ScenarioTone
                     THEN "toned" ELSE "none"]

\* the record of a controller or connection call that ended in context c
Call(op, a, c) ==
    [NoCall EXCEPT !.op = op, !.a = a,
                   !.res = IF c.exc = "none" THEN "ok" ELSE c.exc,
                   !.log = c.log, !.tcalls = c.tcalls, !.slept = c.slept,
                   !.waited = c.waited, !.waitAt = c.waitAt, !.ans = c.ans,
                   !.preFreq = freq, !.preRelay = relay, !.preOutput = output]

\* the record of a scope operation that ended in connection state k
ScopeCall(op, k) ==
    [NoCall EXCEPT !.op = op, !.res = IF k.exc = "none" THEN "ok" ELSE k.exc,
                   !.preFreq = freq, !.preRelay = relay, !.preOutput = output,
                   !.closeInst = k.closeInst, !.closeRm = k.closeRm,
                   !.acquired = k.acquired]

Errors == {"VisaIOError", "Exception"}
Outcomes == {"ok"} \cup Errors
CloseOutcomes == {"ok", "Exception"}

----------------------------------------------------------------------------
(* Device discovery and resource names: scan_visa, Device, USB_Device and  *)
(* device_factory of Function_gen.py.  A string is the sequence of its     *)
(* characters.                                                             *)

\* most device objects a client holds
MaxDevices == 2

UpperCase == <<"A", "B", "C", "D", "E", "F", "G", "H", "I", "J", "K", "L", "M",
               "N", "O", "P", "Q", "R", "S", "T", "U", "V", "W", "X", "Y", "Z">>
LowerCase == <<"a", "b", "c", "d", "e", "f", "g", "h", "i", "j", "k", "l", "m",
               "n", "o", "p", "q", "r", "s", "t", "u", "v", "w", "x", "y", "z">>
Digits == <<"0", "1", "2", "3", "4", "5", "6", "7", "8", "9">>

\* str.lower()
lower(str) ==
    [i \in 1..Len(str) |->
        IF \E j \in 1..Len(UpperCase) : UpperCase[j] = str[i]
        THEN LowerCase[CHOOSE j \in 1..Len(UpperCase) : UpperCase[j] = str[i]]
        ELSE str[i]]

\* str.startswith(prefix)
startswith(str, prefix) ==
    Len(str) >= Len(prefix) /\ SubSeq(str, 1, Len(prefix)) = prefix

\* str.split("::"): the separators are taken leftmost first
RECURSIVE SplitFrom(_, _, _, _)
SplitFrom(str, i, part, parts) ==
    IF i > Len(str) THEN Append(parts, part)
    ELSE IF str[i] = ":" /\ i < Len(str) /\ str[i + 1] = ":"
         THEN SplitFrom(str, i + 2, <<>>, Append(parts, part))
         ELSE SplitFrom(str, i + 1, Append(part, str[i]), parts)

split(str) == SplitFrom(str, 1, <<>>, <<>>)

RECURSIVE DigitsValue(_)
DigitsValue(str) ==
    IF str = <<>> THEN 0
    ELSE 10 * DigitsValue(SubSeq(str, 1, Len(str) - 1))
         + (CHOOSE j \in 1..Len(Digits) : Digits[j] = str[Len(str)]) - 1

IsDigits(str) ==
    /\ str # <<>>
    /\ \A i \in 1..Len(str) : \E j \in 1..Len(Digits) : Digits[j] = str[i]

\* int(str) in base 10: an optional sign and decimal digits, anything else
\* is a ValueError (no token of ResourceNames carries blanks or underscores)
int(str) ==
    LET signed == str # <<>> /\ str[1] \in {"+", "-"}
        digits == IF signed THEN SubSeq(str, 2, Len(str)) ELSE str
    IN  IF IsDigits(digits)
        THEN [ok |-> TRUE,
              v |-> IF signed /\ str[1] = "-" THEN 0 - DigitsValue(digits)
                    ELSE DigitsValue(digits)]
        ELSE [ok |-> FALSE, v |-> 0]

\* an attribute of a device object: never assigned, None, or a value
Unset == [state |-> "unset", v |-> 0]
None == [state |-> "None", v |-> 0]
IntVal(n) == [state |-> "int", v |-> n]
UnsetStr == [state |-> "unset", s |-> <<>>]
StrVal(str) == [state |-> "str", s |-> str]

\* Device.__init__; id is the identity of the new object
Device(resource_name, id) ==
    LET parts == split(resource_name) IN
    [id |-> id, cls |-> "Device", resource_name |-> resource_name,
     parts |-> parts, Protocol |-> parts[1], VendorID |-> Unset,
     ProductID |-> Unset, SN |-> UnsetStr, InterfaceID |-> Unset]

NoDevice == [Device(<<>>, 0) EXCEPT !.cls = "none"]

\* the outcome of a constructor call: the object as far as it was built, and
\* the exception that left the constructor
Built(self, exc) == [obj |-> self, exc |-> exc]

\* the `except ValueError` branch of USB_Device.__init__
ParseFailed(self) ==
    Built([self EXCEPT !.VendorID = None, !.ProductID = None,
                       !.InterfaceID = None], "none")

\* USB_Device.__init__
USB_Device(resource_name, id) ==
    LET self0 == [Device(resource_name, id) EXCEPT !.cls = "USB_Device"]
        parts == self0.parts
        n == Len(parts)
    IN  IF n < 2 THEN Built(self0, "IndexError")
        ELSE IF ~int(parts[2]).ok THEN ParseFailed(self0)
        ELSE LET self1 == [self0 EXCEPT !.VendorID = IntVal(int(parts[2]).v)] IN
        IF n < 3 THEN Built(self1, "IndexError")
        ELSE IF ~int(parts[3]).ok THEN ParseFailed(self1)
        ELSE LET self2 == [self1 EXCEPT !.ProductID = IntVal(int(parts[3]).v)] IN
        IF n < 4 THEN Built(self2, "IndexError")
        ELSE LET self3 == [self2 EXCEPT !.SN = StrVal(parts[4])] IN
        IF n # 6 THEN Built([self3 EXCEPT !.InterfaceID = IntVal(0)], "none")
        ELSE IF ~int(parts[5]).ok THEN ParseFailed(self3)
        ELSE Built([self3 EXCEPT !.InterfaceID = IntVal(int(parts[5]).v)], "none")

\* USB_Device.__hash__: the hash of the tuple of the five fields
USB_Device_hash(self) ==
    <<self.Protocol, self.VendorID, self.ProductID, self.SN, self.InterfaceID>>

\* a == b on device objects: __eq__ is not defined (it is commented out), so
\* Python compares the identities of the two objects
USB_Device_eq(self, other) == self.id = other.id

usb == <<"u", "s", "b">>

device_factory(resource_name, id) ==
    LET parts == split(resource_name) IN
    IF parts # <<>>
    THEN LET protocol == lower(parts[1]) IN
         IF startswith(protocol, usb) THEN USB_Device(resource_name, id)
         ELSE Built(Device(resource_name, id), "none")
    ELSE Built(Device(resource_name, id), "none")

\* scan_visa: the resource manager is created before the try block, a
\* failure of list_resources is reported and leaves the list empty, and
\* rm.close() runs in the finally block before the return
scan_visa(rmRes, listRes, closeRes, found) ==
    IF rmRes # "ok"
    THEN [resources |-> <<>>, exc |-> rmRes, rmCreated |-> FALSE,
          rmClosed |-> FALSE]
    ELSE LET resources == IF listRes = "ok" THEN found ELSE <<>> IN
         IF closeRes # "ok"
         THEN [resources |-> <<>>, exc |-> closeRes, rmCreated |-> TRUE,
               rmClosed |-> FALSE]
         ELSE [resources |-> resources, exc |-> "none", rmCreated |-> TRUE,
               rmClosed |-> TRUE]

RECURSIVE Join(_)
Join(tokens) ==
    IF Len(tokens) = 1 THEN tokens[1]
    ELSE tokens[1] \o <<":", ":">> \o Join(Tail(tokens))

USB0 == <<"U", "S", "B", "0">>
Usb0 == <<"U", "s", "b", "0">>
TCPIP0 == <<"T", "C", "P", "I", "P", "0">>
Vendor == <<"2", "3", "9", "1">>
HexVendor == <<"0", "x", "0", "9", "5", "7">>
Product == <<"9", "4", "7", "9">>
Serial == <<"M", "Y", "5", "2">>
OtherSerial == <<"M", "Y", "5", "3">>
Interface == <<"0">>
BadInterface == <<"x">>
INSTR == <<"I", "N", "S", "T", "R">>

\* the documented name "USB0::2391::9479::MY52102525::0::INSTR", shortened
UsbInstr == Join(<<USB0, Vendor, Product, Serial, Interface, INSTR>>)

ResourceNames ==
    {UsbInstr,
     Join(<<USB0, Vendor, Product, Serial, INSTR>>),
     Join(<<USB0, Vendor, Product, OtherSerial, Interface, INSTR>>),
     Join(<<Usb0, Vendor, Product, Serial, Interface, INSTR>>),
     Join(<<USB0, HexVendor, Product, Serial, Interface, INSTR>>),
     Join(<<USB0, Vendor, Product, Serial, BadInterface, INSTR>>),
     Join(<<USB0, Vendor>>),
     Join(<<TCPIP0, Serial, INSTR>>)}

\* what list_resources can find
Resources == {<<>>, <<UsbInstr>>}

NoDeviceCall ==
    [op |-> "none", arg |-> <<>>, exc |-> "none", failed |-> FALSE,
     resources |-> <<>>, rmCreated |-> FALSE, rmClosed |-> FALSE,
     obj |-> NoDevice]

----------------------------------------------------------------------------
(* Initial state: VISA_Connection.__init__ has run, nothing else *)

Init ==
    /\ instrument = "None"
    /\ sessionOpen = FALSE
    /\ rmOpen = TRUE
    /\ scope = "new"
    /\ ctl = "none"
    /\ freq = NoValue
    /\ output = "unset"
    /\ volt = NoValue
    /\ width = NoValue
    /\ offset = NoValue
    /\ relay = "unknown"
    /\ devFreq = NoValue
    /\ last = NoCall
    /\ prev = NoTrail
    /\ pc = "api"
    /\ melody = <<>>
    /\ idx = 0
    /\ wire = <<>>
    /\ pending = "none"
    /\ devs = <<>>
    /\ dcall = NoDeviceCall

----------------------------------------------------------------------------
(* Actions *)

ConnVars == <<instrument, sessionOpen, rmOpen, scope>>
FieldVars == <<freq, output, volt, width, offset>>
SessionVars == <<pc, melody, idx, wire, pending>>
DevVars == <<devs, dcall>>

\* the effect of a finished call on the instrument and on the call records
Finish(op, a, c) ==
    /\ relay' = c.relay
    /\ devFreq' = c.devFreq
    /\ last' = Call(op, a, c)
    /\ prev' = Trail(prev, last)

\* a method of the controller the client holds
Method(op, a, c) ==
    /\ Finish(op, a, c)
    /\ freq' = c.freq
    /\ output' = c.output
    /\ volt' = c.volt
    /\ width' = c.width
    /\ offset' = c.offset
    /\ UNCHANGED <<ConnVars, ctl, SessionVars, DevVars>>

\* a constructor: the client holds the new controller only if it returned
Construct(op, cls, c) ==
    /\ Finish(op, NoArgs, c)
    /\ IF c.exc = "none"
       THEN /\ ctl' = cls
            /\ freq' = c.freq
            /\ output' = c.output
            /\ volt' = c.volt
            /\ width' = c.width
            /\ offset' = c.offset
       ELSE UNCHANGED <<ctl, FieldVars>>
    /\ UNCHANGED <<ConnVars, SessionVars, DevVars>>

\* the fields of an object under construction
Fresh(failAt) ==
    [Ctx(failAt) EXCEPT !.freq = NoValue, !.output = "unset", !.volt = NoValue,
                        !.width = NoValue, !.offset = NoValue]

Enter ==
    /\ scope # "in"
    /\ \E openRes \in Outcomes, idnRes \in Outcomes, ci \in CloseOutcomes,
          cr \in CloseOutcomes :
         LET k == visa_enter(Conn, openRes, idnRes, ci, cr) IN
         /\ instrument' = k.instrument
         /\ sessionOpen' = k.sessionOpen
         /\ rmOpen' = k.rmOpen
         /\ scope' = IF k.exc = "none" THEN "in" ELSE scope
         /\ last' = ScopeCall("enter", k)
    /\ prev' = Trail(prev, last)
    /\ UNCHANGED <<ctl, FieldVars, relay, devFreq, SessionVars, DevVars>>

Exit ==
    /\ scope = "in"
    /\ \E ci \in CloseOutcomes, cr \in CloseOutcomes :
         LET k == visa_exit(Conn, ci, cr) IN
         /\ instrument' = k.instrument
         /\ sessionOpen' = k.sessionOpen
         /\ rmOpen' = k.rmOpen
         /\ last' = ScopeCall("exit", k)
    /\ scope' = "out"
    /\ prev' = Trail(prev, last)
    /\ UNCHANGED <<ctl, FieldVars, relay, devFreq, SessionVars, DevVars>>

ConnWrite ==
    \E f \in Freqs, failAt \in 0..1 :
        /\ Finish("write", [NoArgs EXCEPT !.f = f], VisaWrite(Ctx(failAt), FreqCmd(f)))
        /\ UNCHANGED <<ConnVars, ctl, FieldVars, SessionVars, DevVars>>

ConnQuery ==
    \E resp \in Responses, failAt \in 0..1 :
        /\ Finish("query", NoArgs, VisaQuery(Ctx(failAt), FreqQuery, resp))
        /\ UNCHANGED <<ConnVars, ctl, FieldVars, SessionVars, DevVars>>

NewFg ==
    \E vpp \in Vpps, off \in Offsets, pw \in PulseWidths, resp \in Responses,
       failAt \in 0..6 :
        Construct("FgInit", "fg", FgInit(Fresh(failAt), vpp, off, pw, resp))

NewMc ==
    \E failAt \in 0..1 : Construct("McInit", "mc", McInit(Fresh(failAt)))

ConfigureFreq ==
    /\ ctl = "fg"
    /\ \E f \in Freqs, failAt \in 0..1 :
         Method("configure_freq", [NoArgs EXCEPT !.f = f], configure_freq(Ctx(failAt), f))

ConfigureVpp ==
    /\ ctl = "fg"
    /\ \E v \in Vpps, failAt \in 0..1 :
         Method("configure_vpp", NoArgs, configure_vpp(Ctx(failAt), v))

ConfigureOffset ==
    /\ ctl = "fg"
    /\ \E v \in Offsets, failAt \in 0..1 :
         Method("configure_offset", NoArgs, configure_offset(Ctx(failAt), v))

ConfigurePulseWidth ==
    /\ ctl = "fg"
    /\ \E v \in PulseWidths, failAt \in 0..1 :
         Method("configure_pulse_width", NoArgs, configure_pulse_width(Ctx(failAt), v))

PlayTone ==
    /\ ctl = "fg"
    /\ \E f \in Freqs, d \in Durations, st \in BOOLEAN, w \in BOOLEAN, so \in BOOLEAN,
          failAt \in 0..5 :
         Method("play_tone",
                [NoArgs EXCEPT !.f = f, !.d = d, !.stop = st, !.wait = w, !.soft = so],
                play_tone(Ctx(failAt), f, d, st, w, so))

SetOutp ==
    /\ ctl = "fg"
    /\ \E out \in BOOLEAN, so \in BOOLEAN, failAt \in 0..2 :
         Method("_set_outp", [NoArgs EXCEPT !.out = out, !.soft = so],
                set_outp(Ctx(failAt), out, so))

Stop ==
    /\ ctl = "fg"
    /\ \E failAt \in 0..1 : Method("stop", NoArgs, stop(Ctx(failAt)))

McPlayTone ==
    /\ ctl = "mc"
    /\ \E f \in Freqs, d \in Durations, st \in BOOLEAN, w \in BOOLEAN,
          failAt \in 0..3 :
         Method("mc_play_tone",
                [NoArgs EXCEPT !.f = f, !.d = d, !.stop = st, !.wait = w],
                mc_play_tone(Ctx(failAt), f, d, st, w))

McSetOutp ==
    /\ ctl = "mc"
    /\ \E out \in BOOLEAN, failAt \in 0..1 :
         Method("mc_set_outp", [NoArgs EXCEPT !.out = out], mc_set_outp(Ctx(failAt), out))

Next ==
    \/ Enter
    \/ Exit
    \/ ConnWrite
    \/ ConnQuery
    \/ NewFg
    \/ NewMc
    \/ ConfigureFreq
    \/ ConfigureVpp
    \/ ConfigureOffset
    \/ ConfigurePulseWidth
    \/ PlayTone
    \/ SetOutp
    \/ Stop
    \/ McPlayTone
    \/ McSetOutp

Spec == Init /\ [][Next]_vars

----------------------------------------------------------------------------
(* The melody session: play_file_on_function_gen of melody_converter.py *)

\* longest melody file
MaxMelodyLen == 3

\* the notes table of note_name_to_midi
notes ==
    [n \in {"C", "C#", "Db", "D", "D#", "Eb", "E", "F", "F#", "Gb", "G", "G#",
            "Ab", "A", "A#", "Bb", "B"} |->
        CASE n = "C" -> 0
          [] n \in {"C#", "Db"} -> 1
          [] n = "D" -> 2
          [] n \in {"D#", "Eb"} -> 3
          [] n = "E" -> 4
          [] n = "F" -> 5
          [] n \in {"F#", "Gb"} -> 6
          [] n = "G" -> 7
          [] n \in {"G#", "Ab"} -> 8
          [] n = "A" -> 9
          [] n \in {"A#", "Bb"} -> 10
          [] n = "B" -> 11]

\* int(2 ** ((midi_note - 69) / 12) * 440) for the notes of the melodies
midi_note_to_frequency(midi_note) ==
    CASE midi_note = 61 -> 277
      [] midi_note = 69 -> 440
      [] midi_note = 81 -> 880

\* A stripped line of the file, as line.split(':') and the slices of
\* note_name_to_midi see it: fields is len(parts), head is parts[0][:-1],
\* digit is parts[0][-1] as a digit (NoValue when it is none), dur is
\* float(parts[1]) (NoValue when it does not parse).
Line(blank, pause, head, digit, fields, dur) ==
    [blank |-> blank, pause |-> pause, head |-> head, digit |-> digit,
     fields |-> fields, dur |-> dur]

BlankLine == Line(TRUE, FALSE, "", NoValue, 1, NoValue)
ToneLines == {Line(FALSE, FALSE, "A", 4, 2, 1), Line(FALSE, FALSE, "C#", 4, 2, 1)}
PauseLine == Line(FALSE, TRUE, "", NoValue, 2, 1)
\* "A4:x", "A4", "H4:1"
BadLines == {Line(FALSE, FALSE, "A", 4, 2, NoValue),
             Line(FALSE, FALSE, "A", 4, 1, NoValue),
             Line(FALSE, FALSE, "H", 4, 2, 1)}
Lines == ToneLines \cup {PauseLine, BlankLine} \cup BadLines

RECURSIVE SeqsUpTo(_, _)
SeqsUpTo(S, n) ==
    IF n = 0 THEN {<<>>}
    ELSE LET shorter == SeqsUpTo(S, n - 1) IN
         shorter \cup {Append(q, x) : q \in {t \in shorter : Len(t) = n - 1}, x \in S}

Melodies == SeqsUpTo(Lines, MaxMelodyLen)

Raise(c, e) == IF c.exc # "none" THEN c ELSE [c EXCEPT !.exc = e]

\* note_name_to_midi followed by midi_note_to_frequency and play_tone
PlayNote(c, line) ==
    IF line.digit = NoValue THEN Raise(c, "ValueError")
    ELSE IF line.head \notin DOMAIN notes THEN Raise(c, "KeyError")
    ELSE LET midi_note == 12 * (line.digit + 1) + notes[line.head]
             f == midi_note_to_frequency(midi_note)
         IN  mc_play_tone(c, f, line.dur, FALSE, TRUE)

\* one iteration of `for line in f`
PlayLine(c, line) ==
    IF line.blank THEN c
    ELSE IF line.fields < 2 THEN Raise(c, "IndexError")
    ELSE IF line.dur = NoValue THEN Raise(c, "ValueError")
    ELSE IF line.pause THEN Sleep(c, line.dur)
    ELSE PlayNote(c, line)

MelodyInit ==
    /\ instrument = "None"
    /\ sessionOpen = FALSE
    /\ rmOpen = TRUE
    /\ scope = "new"
    /\ ctl = "none"
    /\ freq = NoValue
    /\ output = "unset"
    /\ volt = NoValue
    /\ width = NoValue
    /\ offset = NoValue
    /\ relay \in {"ON", "OFF"}
    /\ devFreq = NoValue
    /\ last = NoCall
    /\ prev = NoTrail
    /\ pc = "scan"
    /\ melody \in Melodies
    /\ idx = 0
    /\ wire = <<>>
    /\ pending = "none"
    /\ devs = <<>>
    /\ dcall = NoDeviceCall

\* a step of the session body that ended in context c: an exception leaves
\* the `with` block through __exit__
BodyStep(op, a, c, next) ==
    /\ Finish(op, a, c)
    /\ freq' = c.freq
    /\ output' = c.output
    /\ volt' = c.volt
    /\ width' = c.width
    /\ offset' = c.offset
    /\ wire' = wire \o c.log
    /\ pending' = c.exc
    /\ pc' = IF c.exc = "none" THEN next ELSE "unwind"
    /\ UNCHANGED <<ConnVars, melody, DevVars>>

MelodyScan ==
    /\ pc = "scan"
    /\ \E rmRes \in Outcomes, listRes \in Outcomes, closeRes \in CloseOutcomes,
          found \in Resources :
         LET devices == scan_visa(rmRes, listRes, closeRes, found) IN
         /\ pending' = devices.exc
         /\ pc' = IF devices.exc # "none" THEN "raised"
                  ELSE IF devices.resources # <<>> THEN "enter" ELSE "done"
    /\ UNCHANGED <<ConnVars, ctl, FieldVars, relay, devFreq, last, prev, melody,
                   idx, wire, DevVars>>

MelodyEnter ==
    /\ pc = "enter"
    /\ \E openRes \in Outcomes, idnRes \in Outcomes, ci \in CloseOutcomes,
          cr \in CloseOutcomes :
         LET k == visa_enter(Conn, openRes, idnRes, ci, cr) IN
         /\ instrument' = k.instrument
         /\ sessionOpen' = k.sessionOpen
         /\ rmOpen' = k.rmOpen
         /\ scope' = IF k.exc = "none" THEN "in" ELSE scope
         /\ last' = ScopeCall("enter", k)
         /\ pending' = k.exc
         /\ pc' = IF k.exc = "none" THEN "init" ELSE "raised"
    /\ prev' = Trail(prev, last)
    /\ UNCHANGED <<ctl, FieldVars, relay, devFreq, melody, idx, wire, DevVars>>

MelodyConstruct ==
    /\ pc = "init"
    /\ \E failAt \in 0..1 :
         LET c == McInit(Fresh(failAt)) IN
         /\ BodyStep("McInit", NoArgs, c, "line")
         /\ ctl' = IF c.exc = "none" THEN "mc" ELSE ctl
    /\ idx' = 1

MelodyLine ==
    /\ pc = "line"
    /\ idx <= Len(melody)
    /\ \E failAt \in 0..2 :
         BodyStep("line", NoArgs, PlayLine(Ctx(failAt), melody[idx]), "line")
    /\ idx' = idx + 1
    /\ UNCHANGED ctl

MelodyStop ==
    /\ pc = "line"
    /\ idx > Len(melody)
    /\ \E failAt \in 0..1 :
         BodyStep("mc_set_outp", NoArgs, mc_set_outp(Ctx(failAt), FALSE), "exit")
    /\ UNCHANGED <<ctl, idx>>

MelodyExit ==
    /\ pc \in {"exit", "unwind"}
    /\ \E ci \in CloseOutcomes, cr \in CloseOutcomes :
         LET k == visa_exit(Conn, ci, cr) IN
         /\ instrument' = k.instrument
         /\ sessionOpen' = k.sessionOpen
         /\ rmOpen' = k.rmOpen
         /\ last' = ScopeCall("exit", k)
    /\ scope' = "out"
    /\ pc' = IF pending = "none" THEN "done" ELSE "raised"
    /\ prev' = Trail(prev, last)
    /\ UNCHANGED <<ctl, FieldVars, relay, devFreq, melody, idx, wire, pending,
                   DevVars>>

MelodyNext ==
    \/ MelodyScan
    \/ MelodyEnter
    \/ MelodyConstruct
    \/ MelodyLine
    \/ MelodyStop
    \/ MelodyExit

SpecMelody == MelodyInit /\ [][MelodyNext]_vars

----------------------------------------------------------------------------
(* The device layer: a client that scans and builds device objects *)

ControlVars == <<ConnVars, ctl, FieldVars, relay, devFreq, last, prev, SessionVars>>

ScanVisa ==
    /\ \E rmRes \in Outcomes, listRes \in Outcomes, closeRes \in CloseOutcomes,
          found \in Resources :
         LET devices == scan_visa(rmRes, listRes, closeRes, found) IN
         dcall' = [NoDeviceCall EXCEPT
                      !.op = "scan_visa",
                      !.exc = devices.exc,
                      !.failed = (rmRes # "ok" \/ listRes # "ok" \/ closeRes # "ok"),
                      !.resources = devices.resources,
                      !.rmCreated = devices.rmCreated,
                      !.rmClosed = devices.rmClosed]
    /\ UNCHANGED <<ControlVars, devs>>

\* the client keeps the object only if the constructor returned
DeviceFactory ==
    /\ Len(devs) < MaxDevices
    /\ \E resource_name \in ResourceNames :
         LET built == device_factory(resource_name, Len(devs) + 1) IN
         /\ dcall' = [NoDeviceCall EXCEPT
                         !.op = "device_factory",
                         !.arg = resource_name,
                         !.exc = built.exc,
                         !.obj = IF built.exc = "none" THEN built.obj ELSE NoDevice]
         /\ devs' = IF built.exc = "none" THEN Append(devs, built.obj) ELSE devs
    /\ UNCHANGED ControlVars

DeviceNext ==
    \/ ScanVisa
    \/ DeviceFactory

SpecDevice == Init /\ [][DeviceNext]_vars

----------------------------------------------------------------------------
(* Properties *)

Kinds(log) == [i \in 1..Len(log) |-> log[i].k]
IsPrefix(s, t) == Len(s) <= Len(t) /\ \A i \in 1..Len(s) : s[i] = t[i]
Writes(cmd) == \E i \in 1..Len(last.log) : last.log[i] = cmd
Attempted(r) == r \in {"closed", "raised"}

SoftCall == last.op = "_set_outp" /\ last.a.soft
SoftOnAfterSoftOff ==
    /\ SoftCall /\ last.a.out /\ last.res = "ok"
    /\ prev.softOffFrom # NoValue

\* C1: a soft-off followed immediately by a soft-on, both returning, leaves
\* the tracked frequency and the last frequency the instrument was sent equal
\* to the frequency f tracked before the soft-off.
C1_SoftOffOnRestores ==
    SoftOnAfterSoftOff => /\ freq = prev.softOffFrom
                          /\ devFreq = prev.softOffFrom

C1_Witness ==
    /\ SoftOnAfterSoftOff
    /\ prev.softOffFrom = 880
    /\ devFreq = 880
    /\ last.log = <<FreqCmd(880), OutpOn>>

\* C2 as claimed: a soft setOutput call writes no OUTP1 command, only
\* SOUR1:FREQ, and leaves the relay as it was.
C2_SoftWritesNoRelayCommand ==
    SoftCall => /\ \A i \in 1..Len(last.log) : last.log[i].k = "SOUR1:FREQ"
                /\ relay = last.preRelay

\* C2 as amended: a soft setOutput call never writes OUTP1 OFF; it writes the
\* SOUR1:FREQ command (the tracked frequency to enable, 1 to disable) and then
\* OUTP1 ON, so a call that returns leaves the relay commanded ON.
C2_SoftWritesFreqThenOn ==
    SoftCall =>
        /\ IsPrefix(last.log,
                    <<FreqCmd(IF last.a.out THEN last.preFreq ELSE IdleFreq), OutpOn>>)
        /\ last.res = "ok" => Len(last.log) = 2 /\ relay = "ON"
        /\ relay \in {last.preRelay, "ON"}

C2_Witness ==
    /\ SoftCall /\ ~last.a.out /\ last.res = "ok"
    /\ last.preRelay = "OFF"
    /\ relay = "ON"
    /\ last.log = <<FreqCmd(IdleFreq), OutpOn>>

\* C3 as claimed: write and query outside an open scope fail with the
\* not-connected error and make no transport call.
C3_NotConnectedRejected ==
    (last.op \in {"write", "query"} /\ scope # "in") =>
        /\ last.res = "ValueError"
        /\ last.tcalls = 0

ScenarioDone == last.op = "stop" /\ last.res = "ok" /\ prev.script = "toned"

\* C4 as claimed: construction, playTone(440, 0.0, stop, wait), stop() ends with
\* the output disabled and the last frequency command equal to 440.
C4_ScenarioEndsAt440 ==
    ScenarioDone => /\ output = "False"
                    /\ relay = "OFF"
                    /\ devFreq = 440

\* C4 as amended: the scenario ends with the output disabled (flag false, relay
\* commanded OFF) and the tracked frequency 440; the last frequency command
\* the instrument received is the idle 1 Hz of the tone's soft stop.
C4_ScenarioEndsTracking440 ==
    ScenarioDone => /\ output = "False"
                    /\ relay = "OFF"
                    /\ freq = 440
                    /\ devFreq = IdleFreq

C4_Witness ==
    /\ ScenarioDone
    /\ last.log = <<OutpOff>>
    /\ last.preRelay = "ON"
    /\ freq = 440

Constructed == last.op \in {"FgInit", "McInit"}

\* C5: the first command a constructor writes is the hard OUTP1 OFF, before
\* any parameter command, and it writes no OUTP1 ON, so the relay is commanded
\* off from its first write on.
C5_ConstructionStartsHardOff ==
    (Constructed /\ last.log # <<>>) =>
        /\ last.log[1] = OutpOff
        /\ ~Writes(OutpOn)
        /\ relay = "OFF"

C5_Witness ==
    /\ last.op = "FgInit" /\ last.res = "ok"
    /\ last.preRelay = "ON"
    /\ Len(last.log) = 6
    /\ relay = "OFF"

\* C6 as claimed: after the hard off the constructor writes amplitude, pulse
\* width, offset, then the initial frequency, then the read-back query.
C6_ConstructionOrderClaimed ==
    (last.op = "FgInit" /\ last.res = "ok") =>
        Kinds(last.log) = <<"OUTP1", "VOLT", "FUNC:PULS:WIDT", "VOLT:OFFS",
                            "SOUR1:FREQ", "SOUR1:FREQ?">>

\* C6 as amended: after the hard off the constructor writes the initial
\* frequency first, then amplitude, pulse width, offset, and last the
\* read-back query, each exactly once.
C6_ConstructionOrder ==
    (last.op = "FgInit" /\ last.res = "ok") =>
        /\ Kinds(last.log) = <<"OUTP1", "SOUR1:FREQ", "VOLT", "FUNC:PULS:WIDT",
                               "VOLT:OFFS", "SOUR1:FREQ?">>
        /\ last.log[2] = FreqCmd(InitFreq)
        /\ last.log[3] = VoltCmd(volt)
        /\ last.log[4] = WidtCmd(width)
        /\ last.log[5] = OffsCmd(offset)

C6_Witness ==
    /\ last.op = "FgInit" /\ last.res = "ok"
    /\ last.log[2] = FreqCmd(InitFreq)
    /\ last.log[6] = FreqQuery
    /\ ctl = "fg"

\* C7 as claimed: a scope exit attempts the close of the transport handle (if
\* there is one) and of the resource manager, also when the first close
\* fails, and lets no close failure out.
C7_ExitAttemptsBothCloses ==
    last.op = "exit" =>
        /\ instrument # "None" => Attempted(last.closeInst)
        /\ Attempted(last.closeRm)
        /\ last.res = "ok"

\* C8 as claimed: a failed open has made a close attempt on every handle
\* acquired so far when its error reaches the caller.
C8_FailedOpenReleasesHandles ==
    (last.op = "enter" /\ last.res # "ok") =>
        /\ last.acquired => Attempted(last.closeInst)
        /\ Attempted(last.closeRm)
        /\ scope # "in"

FireAndForget ==
    /\ last.op \in {"play_tone", "mc_play_tone"}
    /\ ~last.a.wait
    /\ last.res = "ok"

\* C9: playTone with wait false returns without waiting, with the output flag
\* true and the relay commanded ON, having written nothing that disables or
\* idles the output, whatever stop and soft_stop are.
C9_FireAndForgetLeavesOutputOn ==
    FireAndForget =>
        /\ ~last.waited /\ last.slept = 0
        /\ output = "True"
        /\ relay = "ON"
        /\ ~Writes(OutpOff) /\ ~Writes(FreqCmd(IdleFreq))
        /\ devFreq = last.a.f

C9_Witness ==
    /\ FireAndForget
    /\ last.op = "play_tone"
    /\ last.a.stop /\ last.a.soft /\ last.a.d = 1
    /\ last.preRelay = "OFF"
    /\ relay = "ON"

Played == pc = "done" /\ scope = "out"
IsTone(line) == line \in ToneLines
Positions(log, cmd) == {i \in 1..Len(log) : log[i] = cmd}
Tones == {i \in 1..Len(melody) : IsTone(melody[i])}

\* C10: when a melody has been played to its end, the only OUTP1 OFF commands
\* written are the constructor's and one after the last entry: none lies
\* between the tones, each of which writes its frequency and OUTP1 ON.
C10_LegatoThenOneStop ==
    Played =>
        /\ Len(wire) = 2 + 2 * Cardinality(Tones)
        /\ Positions(wire, OutpOff) = {1, Len(wire)}
        /\ \A i \in 2..(Len(wire) - 1) :
             IF i % 2 = 0 THEN wire[i].k = "SOUR1:FREQ" ELSE wire[i] = OutpOn
        /\ relay = "OFF"

C10_Witness ==
    /\ Played
    /\ Cardinality(Tones) = 2
    /\ Len(melody) = 3
    /\ wire = <<OutpOff, FreqCmd(440), OutpOn, FreqCmd(277), OutpOn, OutpOff>>

SetOutpCall == last.op \in {"_set_outp", "mc_set_outp"}

\* C11 as claimed: after every setOutput(enable, soft) call the tracked output
\* flag equals `enable`, also when a write of that call failed.
C11_FlagFollowsRequest ==
    SetOutpCall => output = BoolStr(last.a.out)

\* C11 as amended: after a setOutput call that returns the flag equals
\* `enable`; a call in which a write fails leaves the flag as it was.
C11_FlagFollowsWrittenRequest ==
    SetOutpCall =>
        output = IF last.res = "ok" THEN BoolStr(last.a.out) ELSE last.preOutput

C11_Witness ==
    /\ last.op = "_set_outp" /\ last.a.soft /\ ~last.a.out
    /\ last.res = "VisaIOError"
    /\ last.log = <<FreqCmd(IdleFreq)>>
    /\ last.preOutput = "True"
    /\ output = "True"

ToneCall == last.op = "play_tone"
ToneOn == <<FreqCmd(last.a.f), FreqCmd(last.a.f), OutpOn>>
ToneOff == IF last.a.soft THEN <<FreqCmd(IdleFreq), OutpOn>> ELSE <<OutpOff>>

\* C16: every playTone call writes the frequency before the command that
\* enables the output; with wait and stop the disabling commands come only
\* after the wait and the call returns with the flag false; with wait and no
\* stop it returns with the flag true and nothing disabling written.
C16_ToneOrder ==
    ToneCall =>
        /\ IsPrefix(last.log,
                    ToneOn \o (IF last.a.wait /\ last.a.stop THEN ToneOff ELSE <<>>))
        /\ last.waited => last.a.wait /\ last.waitAt = Len(ToneOn)
        /\ (last.res = "ok" /\ last.a.wait /\ last.a.stop) =>
              /\ last.waited /\ last.slept = last.a.d
              /\ last.log = ToneOn \o ToneOff
              /\ output = "False"
        /\ (last.res = "ok" /\ last.a.wait /\ ~last.a.stop) =>
              /\ last.waited /\ last.slept = last.a.d
              /\ last.log = ToneOn
              /\ output = "True"

C16_Witness ==
    /\ ToneCall /\ last.res = "ok"
    /\ last.a.wait /\ last.a.stop /\ ~last.a.soft /\ last.a.d = 1
    /\ last.log = <<FreqCmd(880), FreqCmd(880), OutpOn, OutpOff>>
    /\ last.waitAt = 3
    /\ output = "False"

SoftOff == SoftCall /\ ~last.a.out /\ last.res = "ok"

\* C17: after setOutput(false, soft=true) the instrument has been commanded
\* to 1 Hz with the relay ON, the tracked flag is false and the tracked
\* frequency is what it was before the call.
C17_SoftOffIdles ==
    SoftOff => /\ devFreq = IdleFreq
               /\ relay = "ON"
               /\ output = "False"
               /\ freq = last.preFreq

C17_Witness ==
    /\ SoftOff
    /\ last.preFreq = 880 /\ freq = 880
    /\ last.preOutput = "True"
    /\ devFreq = IdleFreq

\* The tracked frequency after the last call, given the value a construction
\* that returned leaves in it: configure_freq and play_tone record their
\* argument once their frequency write has succeeded, and nothing else
\* changes it.
TrackedFreqIs(constructed) ==
    ctl = "fg" =>
        freq = IF last.op = "FgInit" /\ last.res = "ok" THEN constructed
               ELSE IF last.op \in {"configure_freq", "play_tone"} /\ last.log # <<>>
                    THEN last.a.f
               ELSE last.preFreq

\* C18 as claimed: the tracked frequency is the last one commanded through
\* construction, configureFrequency or playTone: 1000 right after
\* construction, whatever the instrument answers to the read-back.
C18_TracksLastCommanded == TrackedFreqIs(InitFreq)

\* C18 as amended: the tracked frequency is the last one commanded through
\* configureFrequency or playTone; right after construction it is the integer
\* part of the instrument's answer to the read-back query, not the 1000 the
\* constructor commanded.
C18_TracksCommandedOrReadBack == TrackedFreqIs(IntOfFloat(last.ans))

C18_Witness ==
    /\ last.op = "FgInit" /\ last.res = "ok"
    /\ last.ans = 4407
    /\ freq = 440
    /\ devFreq = InitFreq

FgCall ==
    last.op \in {"play_tone", "_set_outp", "stop", "configure_freq", "configure_vpp",
                 "configure_offset", "configure_pulse_width"}

\* C19: a construction that returns leaves the flag false, and no playTone,
\* setOutput, stop or configure call, failed writes included, takes the
\* controller from a state where a true flag implies the relay commanded ON
\* to one where the flag is true and the relay is not commanded ON.
C19_FlagOnImpliesRelayOn ==
    /\ (last.op = "FgInit" /\ last.res = "ok") => output = "False"
    /\ (FgCall /\ (last.preOutput = "True" => last.preRelay = "ON")) =>
          (output = "True" => relay = "ON")

C19_Witness ==
    /\ last.op = "stop" /\ last.res = "VisaIOError"
    /\ last.preOutput = "True" /\ last.preRelay = "ON"
    /\ output = "True" /\ relay = "ON"

\* the session is over without a transport error
SessionOver == pc \in {"done", "raised"} /\ scope = "out"
TransportErrors == {"VisaIOError", "InvalidSession", "Exception"}
FreqsWritten == SelectSeq(wire, LAMBDA m : m.k = "SOUR1:FREQ")
LineFreq(line) == midi_note_to_frequency(12 * (line.digit + 1) + notes[line.head])
ToneFreqs == [i \in 1..Cardinality(Tones) |->
                 LineFreq(melody[CHOOSE j \in Tones :
                                    Cardinality({t \in Tones : t <= j}) = i])]

\* C12: a malformed melody line is contained to its entry: when the session is
\* over and no transport call failed, the frequencies written are those of
\* all the well-formed tone lines of the file, in file order.
C12_MalformedLineContained ==
    (SessionOver /\ ctl = "mc" /\ pending \notin TransportErrors) =>
        [i \in 1..Len(FreqsWritten) |-> FreqsWritten[i].v] = ToneFreqs

RelayCmds == SelectSeq(wire, LAMBDA m : m.k = "OUTP1")

\* C20: whenever the session has left its connection scope after the
\* controller was constructed, the last relay command written is OUTP1 OFF.
C20_ClosedWithOutputOff ==
    (scope = "out" /\ ctl = "mc") =>
        /\ RelayCmds # <<>>
        /\ RelayCmds[Len(RelayCmds)] = OutpOff
        /\ relay = "OFF"

UsbDevices == {i \in 1..Len(devs) : devs[i].cls = "USB_Device"}
Identity(d) == <<d.Protocol, d.VendorID, d.ProductID, d.SN, d.InterfaceID>>

\* C13: two USB devices the client built compare equal exactly when their
\* (protocol, vendorId, productId, serialNumber, interfaceId) are the same,
\* and devices with the same five fields have equal hashes.
C13_SameFieldsEqualDevices ==
    \A i \in UsbDevices, j \in UsbDevices :
        /\ USB_Device_eq(devs[i], devs[j]) <=> Identity(devs[i]) = Identity(devs[j])
        /\ Identity(devs[i]) = Identity(devs[j]) =>
               USB_Device_hash(devs[i]) = USB_Device_hash(devs[j])

NumericOrAbsent(attr) == attr.state \in {"int", "None"}

\* C14: device_factory on a resource name whose first token starts with
\* "usb" in any letter case returns a USB device without raising, and each
\* numeric field of it is a number or absent.
C14_UsbNameNeverRaises ==
    (dcall.op = "device_factory" /\ startswith(lower(split(dcall.arg)[1]), usb)) =>
        /\ dcall.exc = "none"
        /\ dcall.obj.cls = "USB_Device"
        /\ NumericOrAbsent(dcall.obj.VendorID)
        /\ NumericOrAbsent(dcall.obj.ProductID)
        /\ NumericOrAbsent(dcall.obj.InterfaceID)

\* C15: scan_visa never propagates a failure: when a step of the discovery
\* fails it returns an empty list, and the resource manager it created is
\* closed when it returns.
C15_ScanNeverPropagates ==
    dcall.op = "scan_visa" =>
        /\ dcall.exc = "none"
        /\ dcall.failed => dcall.resources = <<>>
        /\ dcall.rmCreated => dcall.rmClosed

====
